---- MODULE Spec2Model ----
(***************************************************************************)
(* The multiple-pursuit plug-in of OpenSteerDemo.cpp: MpBase, MpWanderer,  *)
(* MpPursuer and the roster MpPlugIn (open / update / reset / close).      *)
(*                                                                         *)
(* Numbers are fixed point.  Vehicles move on one axis of the XZ plane     *)
(* (the axis of the initial forward vector), so a Vec3 is a signed         *)
(* integer and a unit vector is +1 or -1.                                  *)
(*   time      millisecond            (0.006 s = 6)                        *)
(*   position  1e-6 world unit        (20 = 20000000)                      *)
(*   speed     1e-3 world unit / s    (3.0 = 3000)                         *)
(*   force     1e-3 world unit / s^2  (5.0 = 5000)                         *)
(* so that position += speed * dt is exact.                                *)
(***************************************************************************)
EXTENDS Integers, Sequences, FiniteSets, TLC

VARIABLES
    pursuerCount,   \* MpPlugIn::pursuerCount
    heap,           \* every vehicle ever allocated with new, by address 1..Len(heap)
    allMP,          \* MpPlugIn::allMP, the vector's elements (addresses)
    buf,            \* the vector's storage; clear() leaves its contents in place
    pBegin,         \* MpPlugIn::pBegin, an index into buf (0: value-initialised)
    pEnd,           \* MpPlugIn::pEnd
    wanderer,       \* MpPlugIn::wanderer, an address (0: null)
    status,         \* "ok", or "crashed" once undefined behaviour ended the process
    last,           \* the last call made on the roster: name, arguments, outcome
    log,            \* what the last call did, in order
    caught,         \* contact resets since the roster was opened or reset
    ops,            \* number of calls counted against the bounds
    loop            \* the main loop of runGraphics: where it is, what it drew

vars == <<pursuerCount, heap, allMP, buf, pBegin, pEnd, wanderer, status, last, log,
          caught, ops, loop>>

----------------------------------------------------------------------------
(* Bounds of the model *)

\* calls made on one roster in the unrestricted specification
MaxOps == 3
\* vehicles allocated over the life of one roster
MaxObjs == 4
\* pursuers of the roster of the program, which is constructed with 8
MaxRunPursuers == 2
\* calls of update made on a roster opened once
MaxTicks == 3
\* calls after which a roster opened once may still be reset
MaxResetTicks == 1
\* ticks of a pursuit of a wanderer that is never updated
MaxChaseTicks == 1800
\* iterations of the main loop of runGraphics
MaxFrames == 2

----------------------------------------------------------------------------
(* Program constants *)

\* float elapsedTime = 0.006, in ms
FrameDt == 6
\* MpPlugIn gMpPlugIn (8)
GlobalPursuerCount == 8
\* setMaxForce (5.0)
MpMaxForce == 5000
\* setMaxSpeed (3.0)
MpMaxSpeed == 3000
\* const float inner = 20
RingInner == 20000000
\* const float outer = 30
RingOuter == 30000000
\* const float maxTime = 20, in ms
PursuitMaxTime == 20000
\* SimpleVehicle::reset: setRadius (0.5)
VehicleRadius == 500000
\* steerForWander: the random walk moves 12 per second
WanderRate == 12

----------------------------------------------------------------------------
(* Arithmetic *)

Abs(x) == IF x < 0 THEN -x ELSE x

Sign(x) == IF x < 0 THEN -1 ELSE IF x > 0 THEN 1 ELSE 0

Min(a, b) == IF a < b THEN a ELSE b

Max(a, b) == IF a > b THEN a ELSE b

\* a / b rounded toward zero, as a float-to-fixed conversion does
Quot(a, b) == Sign(a) * Sign(b) * (Abs(a) \div Abs(b))

\* clip (x, lo, hi)
Clip(x, lo, hi) == IF x < lo THEN lo ELSE IF x > hi THEN hi ELSE x

\* Vec3::truncateLength on one axis
TruncateLength(v, maxLength) == IF Abs(v) > maxLength THEN Sign(v) * maxLength ELSE v

\* Vec3::distance on one axis
Distance(a, b) == Abs(a - b)

----------------------------------------------------------------------------
(* Random sources.  Each is the set of values one call may return. *)

\* frandom01 (): the two ends of its range
Frandom01 == {0, 1}

\* RandomUnitVectorOnXZPlane (), and the heading randomizeHeadingOnXZPlane () sets
UnitVectors == {-1, 1}

\* frandom01 () * 2 - 1 in the random walk of steerForWander
WanderDraws == {-1, 0, 1}

\* what one call of randomizeStartingPositionAndHeading draws
RingDraws == [f : Frandom01, unit : UnitVectors, heading : UnitVectors]

----------------------------------------------------------------------------
(* Vehicles *)

\* A vehicle as allocated, before any constructor body has run
RawVehicle(kind, wref) ==
    [kind |-> kind, alive |-> TRUE, pos |-> 0, fwd |-> 1, speed |-> 0,
     maxForce |-> 0, maxSpeed |-> 0, radius |-> 0, ws |-> 0, wref |-> wref]

\* SimpleVehicle::reset: local space, position, speed, radius and wander state
SimpleVehicleReset(v) ==
    [v EXCEPT !.pos = 0, !.fwd = 1, !.speed = 0, !.radius = VehicleRadius, !.ws = 0]

\* setSpeed given the force limit: setSpeed (5.0)
MpBaseResetSpeed5(v) ==
    [SimpleVehicleReset(v) EXCEPT !.speed = MpMaxForce, !.maxForce = MpMaxForce,
                                  !.maxSpeed = MpMaxSpeed]

\* MpBase::reset
MpBaseReset(v) ==
    [SimpleVehicleReset(v) EXCEPT !.speed = 0, !.maxForce = MpMaxForce,
                                  !.maxSpeed = MpMaxSpeed]

\* MpWanderer::reset
MpWandererReset(v) == MpBaseReset(v)

\* velocity (): forward * speed
Velocity(v) == v.fwd * v.speed

\* applySteeringForce (force, elapsedTime)
ApplySteeringForce(v, force, dt) ==
    LET clipped  == TruncateLength(force, v.maxForce)
        velocity == Velocity(v) + Quot(clipped * dt, 1000)
        newSpeed == Min(Abs(velocity), v.maxSpeed)
        newFwd   == IF newSpeed > 0 THEN Sign(velocity) ELSE v.fwd
    IN  [v EXCEPT !.speed = newSpeed, !.fwd = newFwd,
                  !.pos = v.pos + newFwd * newSpeed * dt]

\* the random walk state of steerForWander after one call
WanderWalk(v, dt, draw) == Clip(v.ws + draw * WanderRate * dt, -1000, 1000)

\* MpWanderer::update
MpWandererUpdate(v, dt, draw) ==
    LET ws       == WanderWalk(v, dt, draw)
        wander2d == v.fwd * ws
        steer    == v.fwd * 1000 + wander2d * 3
    IN  ApplySteeringForce([v EXCEPT !.ws = ws], steer, dt)

\* steerForSeek (target): the offset to the target, as a force
SteerForSeek(v, target) == Quot(target - v.pos, 1000)

\* the look-ahead of steerForPursuit, in ms
PredictionTime(v, quarry, maxPredictionTime) ==
    LET distance == Distance(quarry.pos, v.pos)
        toward   == Sign(quarry.pos - v.pos)
        qAlong   == Velocity(quarry) * toward
        direct   == distance \div v.maxSpeed
        estimate == IF v.speed <= quarry.speed \/ qAlong < 0
                    THEN direct
                    ELSE distance \div (v.speed - qAlong)
    IN  Clip(estimate, 0, maxPredictionTime)

\* steerForPursuit (quarry, maxPredictionTime)
SteerForPursuit(v, quarry, maxPredictionTime) ==
    LET t         == PredictionTime(v, quarry, maxPredictionTime)
        predicted == quarry.pos + Velocity(quarry) * t
    IN  SteerForSeek(v, predicted)

\* frandom2 (inner, outer)
Frandom2(lo, hi, f) == lo + f * (hi - lo)

\* MpPursuer::randomizeStartingPositionAndHeading
RandomizeStartingPositionAndHeading(v, wpos, draw) ==
    LET radius       == Frandom2(RingInner, RingOuter, draw.f)
        randomOnRing == draw.unit * radius
    IN  [v EXCEPT !.pos = wpos + randomOnRing, !.fwd = draw.heading]

\* MpPursuer::reset
MpPursuerReset(v, wpos, draw) ==
    RandomizeStartingPositionAndHeading(MpBaseReset(v), wpos, draw)

----------------------------------------------------------------------------
(* The heap and the calls on it.                                           *)
(* A call runs on m = [heap, log, status]; each step of it yields the set  *)
(* of m it can leave.  Touching a deleted vehicle is undefined behaviour:  *)
(* the process crashes there, or the freed memory still holds the vehicle  *)
(* and the call goes on.                                                   *)

\* one entry of the log: what was done to vehicle id, the wanderer w it read
\* and the position wpos it found there, the position of id afterwards, and
\* whether a deleted vehicle was touched
Event(ev, id, w, wpos, pos, dead) ==
    [ev |-> ev, id |-> id, w |-> w, wpos |-> wpos, pos |-> pos, dead |-> dead]

Crash(m, e) == [m EXCEPT !.log = Append(@, e), !.status = "crashed"]

\* with undefined behaviour the call may also crash at e
OrCrash(ub, m, e, done) == IF ub THEN done \cup {Crash(m, e)} ELSE done

\* the loop started at allMP.begin () instead of pBegin
PursuerRangeFromBegin(b, first, end) ==
    IF 1 >= end THEN <<>> ELSE SubSeq(b, 1, end - 1)

\* the elements a loop from pBegin to pEnd visits
PursuerRange(b, first, end) ==
    IF first >= end THEN <<>> ELSE SubSeq(b, first, end - 1)

\* wanderer->update (elapsedTime), through the pointer w
WandererStep(m, w, dt, draw) ==
    IF w = 0
    THEN {Crash(m, Event("wander", 0, 0, 0, 0, FALSE))}
    ELSE LET v    == MpWandererUpdate(m.heap[w], dt, draw)
             dead == ~m.heap[w].alive
             e    == Event("wander", w, w, v.pos, v.pos, dead)
         IN  OrCrash(dead, m, e,
                     {[m EXCEPT !.heap[w] = v, !.log = Append(@, e)]})

\* every pursuer chasing the vehicle created just before it
WandererRefsPrevious(m, id) == {id - 1}

\* the addresses the wanderer member of the vehicle at id may hold when the
\* vehicle is used as an MpPursuer: its own member, or, for an MpWanderer
\* cast to MpPursuer, whatever lies behind the object
WandererRefs(m, id) ==
    IF m.heap[id].kind = "P" THEN {m.heap[id].wref} ELSE 1..Len(m.heap)

\* d > r in place of d < r
TouchesReversed(v, q) == Distance(v.pos, q.pos) > v.radius + q.radius

\* the contact test of MpPursuer::update: d < r
Touches(v, q) == Distance(v.pos, q.pos) < v.radius + q.radius

\* MpPursuer::update on the vehicle at id, whose wanderer member holds w
MpPursuerUpdate(m, id, w, dt) ==
    LET v       == m.heap[id]
        q       == m.heap[w]
        dead    == ~v.alive \/ ~q.alive
        ub      == dead \/ v.kind # "P"
        checked == Event("check", id, w, q.pos, v.pos, dead)
        afterCheck ==
            IF Touches(v, q)
            THEN {[v |-> MpPursuerReset(v, q.pos, draw), hit |-> TRUE] : draw \in RingDraws}
            ELSE {[v |-> v, hit |-> FALSE]}
        steered(c) ==
            ApplySteeringForce(c.v, SteerForPursuit(c.v, q, PursuitMaxTime), dt)
        events(c) ==
            <<checked>>
            \o (IF c.hit THEN <<Event("reset", id, w, q.pos, c.v.pos, dead)>> ELSE <<>>)
            \o <<Event("steer", id, w, q.pos, steered(c).pos, dead)>>
    IN  OrCrash(ub, m, checked,
                {[m EXCEPT !.heap[id] = steered(c), !.log = @ \o events(c)]
                    : c \in afterCheck})

\* ((MpPursuer&) (**i)).update (elapsedTime)
PursuerStep(m, id, dt) ==
    UNION {MpPursuerUpdate(m, id, w, dt) : w \in WandererRefs(m, id)}

\* ((MpPursuer&) (**i)).reset ()
PursuerResetStep(m, id) ==
    UNION {LET v    == m.heap[id]
               q    == m.heap[w]
               dead == ~v.alive \/ ~q.alive
               ub   == dead \/ v.kind # "P"
           IN  OrCrash(ub, m, Event("reset", id, w, q.pos, v.pos, dead),
                       {LET nv == MpPursuerReset(v, q.pos, draw)
                        IN  [m EXCEPT !.heap[id] = nv,
                                      !.log = Append(@, Event("reset", id, w, q.pos, nv.pos, dead))]
                           : draw \in RingDraws})
           : w \in WandererRefs(m, id)}

\* wanderer->reset ()
WandererResetStep(m, w) ==
    IF w = 0
    THEN {Crash(m, Event("wreset", 0, 0, 0, 0, FALSE))}
    ELSE LET v    == MpWandererReset(m.heap[w])
             dead == ~m.heap[w].alive
             e    == Event("wreset", w, w, v.pos, v.pos, dead)
         IN  OrCrash(dead, m, e,
                     {[m EXCEPT !.heap[w] = v, !.log = Append(@, e)]})

\* delete of the vehicle at id (0: delete of a null pointer does nothing)
DeleteStep(m, id) ==
    IF id = 0
    THEN {m}
    ELSE LET dead == ~m.heap[id].alive
             e    == Event("delete", id, 0, 0, m.heap[id].pos, dead)
         IN  OrCrash(dead, m, e,
                     {[m EXCEPT !.heap[id].alive = FALSE, !.log = Append(@, e)]})

\* a loop over ids: Step(m, id) applied in order to every m still running
RECURSIVE ForEach(_, _, _)
ForEach(Step(_, _), ms, ids) ==
    IF ids = <<>>
    THEN ms
    ELSE ForEach(Step,
                 UNION {IF m.status = "ok" THEN Step(m, Head(ids)) ELSE {m} : m \in ms},
                 Tail(ids))

Start == [heap |-> heap, log |-> <<>>, status |-> "ok"]

\* the contact resets a log records
Resets(l) == {i \in 1..Len(l) : l[i].ev = "reset"}

\* MpPlugIn::update
UpdateOutcomes(dt, draw) ==
    LET step(m, id) == PursuerStep(m, id, dt)
    IN  ForEach(step, WandererStep(Start, wanderer, dt, draw),
                PursuerRange(buf, pBegin, pEnd))

\* the pursuers reset before the wanderer
ResetOutcomesPursuersFirst ==
    UNION {IF m.status = "ok" THEN WandererResetStep(m, wanderer) ELSE {m}
              : m \in ForEach(PursuerResetStep, {Start}, PursuerRange(buf, pBegin, pEnd))}

\* MpPlugIn::reset
ResetOutcomes ==
    ForEach(PursuerResetStep, WandererResetStep(Start, wanderer),
            PursuerRange(buf, pBegin, pEnd))

\* MpPlugIn::close, up to allMP.clear ()
CloseOutcomes ==
    ForEach(DeleteStep, DeleteStep(Start, wanderer), PursuerRange(buf, pBegin, pEnd))

----------------------------------------------------------------------------
(* The roster MpPlugIn *)

\* the values the constructor may be given
PursuerCounts == {-1, 0, 1}

\* the values it is given by a host that opens the roster once
HostPursuerCounts == {1, 2}

\* the values it is given by the program: MpPlugIn gMpPlugIn (8), within the
\* bound
RunPursuerCounts == 1..Min(MaxRunPursuers, GlobalPursuerCount)

\* the elapsed times a host steps an opened roster with, in ms: the 0.006 s
\* of the program, and 3.333 s, in which a vehicle at top speed covers 10
\* units
RunElapsedTimes == {FrameDt, 3333}

\* the elapsed times update may be given, in ms
ElapsedTimes == {-FrameDt, 0, FrameDt}

\* the wanderer position the host has for a tick: none, or a point
NoInput == [given |-> FALSE, pos |-> 0]

ExternalInputs == {NoInput, [given |-> TRUE, pos |-> 5 * 1000000]}

\* the main loop when runGraphics is not running
NoLoop == [pc |-> "none", iter |-> 0, calls |-> <<>>, drawn |-> <<>>, shown |-> <<>>,
           selected |-> 0]

\* OpenSteerDemo::selectedVehicle = the vehicle at id (0: NULL)
Select(l, id) == [l EXCEPT !.selected = id]

Call(op, dt, ext, st) ==
    [op |-> op, dt |-> dt, ext |-> ext, result |-> IF st = "ok" THEN "ok" ELSE "crash"]

\* MpPlugIn::MpPlugIn (int n), the object in static storage
Init ==
    /\ pursuerCount \in PursuerCounts
    /\ heap = <<>>
    /\ allMP = <<>>
    /\ buf = <<>>
    /\ pBegin = 0
    /\ pEnd = 0
    /\ wanderer = 0
    /\ status = "ok"
    /\ last = Call("new", 0, NoInput, "ok")
    /\ log = <<>>
    /\ caught = 0
    /\ ops = 0
    /\ loop = NoLoop

\* new MpWanderer
NewWanderer == MpWandererReset(MpBaseReset(RawVehicle("W", 0)))

\* new MpPursuer (w)
NewPursuer(w, wpos, draw) == MpPursuerReset(MpBaseReset(RawVehicle("P", w)), wpos, draw)

\* MpPlugIn::open
OpenCall ==
    LET k == Max(pursuerCount, 0)
        w == Len(heap) + 1
    IN  /\ w + k <= MaxObjs
        /\ \E draws \in [1..k -> RingDraws] :
              LET made == [i \in 1..k |-> NewPursuer(w, NewWanderer.pos, draws[i])]
              IN  /\ heap' = Append(heap, NewWanderer) \o made
                  /\ log' = <<Event("new", w, 0, 0, NewWanderer.pos, FALSE)>>
                            \o [i \in 1..k |->
                                   Event("new", w + i, w, NewWanderer.pos, made[i].pos, FALSE)]
        /\ allMP' = Append(allMP, w) \o [i \in 1..k |-> w + i]
        /\ buf' = allMP'
        /\ pBegin' = 2
        /\ pEnd' = Len(allMP') + 1
        /\ wanderer' = w
        /\ last' = Call("open", 0, NoInput, "ok")
        /\ UNCHANGED <<pursuerCount, status, caught>>

\* MpPlugIn::update (elapsedTime).  ext is what the host has for this tick;
\* update has no parameter for it.
UpdateCall(dt, ext, draw) ==
    /\ \E m \in UpdateOutcomes(dt, draw) :
          /\ heap' = m.heap
          /\ log' = m.log
          /\ status' = m.status
          /\ last' = Call("update", dt, ext, m.status)
          /\ caught' = caught + Cardinality(Resets(m.log))
    /\ UNCHANGED <<pursuerCount, allMP, buf, pBegin, pEnd, wanderer>>

\* MpPlugIn::reset
ResetCall ==
    /\ \E m \in ResetOutcomes :
          /\ heap' = m.heap
          /\ log' = m.log
          /\ status' = m.status
          /\ last' = Call("reset", 0, NoInput, m.status)
    /\ caught' = 0
    /\ UNCHANGED <<pursuerCount, allMP, buf, pBegin, pEnd, wanderer>>

\* the positions of the vehicles ids in heap h
Positions(h, ids) == [i \in 1..Len(ids) |-> h[ids[i]].pos]

\* the elements MpPlugIn::redraw draws: from allMP.begin () to pEnd
RedrawRange == IF 1 >= pEnd THEN <<>> ELSE SubSeq(buf, 1, pEnd - 1)

\* MpPlugIn::redraw: the camera and the grid follow selectedVehicle, then
\* every vehicle from allMP.begin () to pEnd is drawn.  A null
\* selectedVehicle ends the process at selected->position ().
RedrawOutcomes ==
    LET sel  == loop.selected
        dead == \/ ~heap[sel].alive
                \/ \E i \in 1..Len(RedrawRange) : ~heap[RedrawRange[i]].alive
        done == [status |-> "ok", drawn |-> Positions(heap, RedrawRange)]
        halt == [status |-> "crashed", drawn |-> loop.drawn]
    IN  IF sel = 0 THEN {halt}
        ELSE IF dead THEN {done, halt}
        ELSE {done}

\* MpPlugIn::redraw (currentTime, elapsedTime)
RedrawCall(dt) ==
    /\ \E r \in RedrawOutcomes :
          /\ status' = r.status
          /\ loop' = [loop EXCEPT !.drawn = r.drawn]
          /\ last' = Call("redraw", dt, NoInput, r.status)
    /\ log' = <<>>
    /\ UNCHANGED <<pursuerCount, heap, allMP, buf, pBegin, pEnd, wanderer, caught>>

\* OpenSteerDemo::position3dCamera (selected, distance, elevation), which
\* init3dCamera, init2dCamera and position2dCamera come down to:
\* selectedVehicle = &selected, then, if (&selected), the camera is placed
\* from selected.forward () and selected.position ().  id is the vehicle the
\* reference is bound to (0: a null reference).  A null reference is
\* undefined behaviour: the test fails and the call returns, or the test is
\* compiled away and the read ends the process; so is a reference to a
\* deleted vehicle.
PositionCameraOutcomes(id) ==
    IF id # 0 /\ heap[id].alive THEN {"ok"} ELSE {"ok", "crashed"}

PositionCameraCall(id) ==
    /\ loop' = Select(loop, id)
    /\ \E st \in PositionCameraOutcomes(id) :
          /\ status' = st
          /\ last' = Call("camera", 0, NoInput, st)
    /\ log' = <<>>
    /\ UNCHANGED <<pursuerCount, heap, allMP, buf, pBegin, pEnd, wanderer, caught>>

\* MpPlugIn::close
CloseCall ==
    /\ \E m \in CloseOutcomes :
          /\ heap' = m.heap
          /\ log' = m.log
          /\ status' = m.status
          /\ last' = Call("close", 0, NoInput, m.status)
          /\ allMP' = IF m.status = "ok" THEN <<>> ELSE allMP
    /\ UNCHANGED <<caught, pursuerCount, buf, pBegin, pEnd, wanderer>>

----------------------------------------------------------------------------------------------------------------------------------------
(* Spec: any sequence of calls on one roster, with any arguments *)

Running == status = "ok" /\ ops < MaxOps

Open == Running /\ OpenCall /\ ops' = ops + 1 /\ loop' = Select(loop, wanderer')

Update ==
    /\ Running
    /\ \E dt \in ElapsedTimes, ext \in ExternalInputs, draw \in WanderDraws :
          UpdateCall(dt, ext, draw)
    /\ ops' = ops + 1
    /\ UNCHANGED loop

Reset == Running /\ ResetCall /\ ops' = ops + 1 /\ UNCHANGED loop

Close == Running /\ CloseCall /\ ops' = ops + 1 /\ UNCHANGED loop

Redraw == Running /\ RedrawCall(FrameDt) /\ ops' = ops + 1

PositionCamera ==
    /\ Running
    /\ \E id \in 0..Len(heap) : PositionCameraCall(id)
    /\ ops' = ops + 1

Next == Open \/ Update \/ Reset \/ Close \/ Redraw \/ PositionCamera

Spec == Init /\ [][Next]_vars

----------------------------------------------------------------------------
(* SpecRun: a roster in the hands of a host that uses it as the program     *)
(* does: it constructs it with one or two pursuers, opens it once, never    *)
(* closes it, and calls update, with the step of the program or with a long *)
(* step in which pursuers reach the wanderer; a reset may come between two  *)
(* steps.  ops counts the calls made.                                       *)

\* MpPlugIn::MpPlugIn (int n)
InitRun ==
    /\ pursuerCount \in HostPursuerCounts
    /\ heap = <<>>
    /\ allMP = <<>>
    /\ buf = <<>>
    /\ pBegin = 0
    /\ pEnd = 0
    /\ wanderer = 0
    /\ status = "ok"
    /\ last = Call("new", 0, NoInput, "ok")
    /\ log = <<>>
    /\ caught = 0
    /\ ops = 0
    /\ loop = NoLoop

\* MpPlugIn::open, called once
OpenOnce ==
    /\ last.op = "new"
    /\ OpenCall
    /\ ops' = 1
    /\ loop' = Select(loop, wanderer')

\* gMpPlugIn.update (elapsedTime)
Tick ==
    /\ last.op # "new"
    /\ ops <= MaxTicks
    /\ \E dt \in RunElapsedTimes, draw \in WanderDraws : UpdateCall(dt, NoInput, draw)
    /\ ops' = ops + 1
    /\ UNCHANGED loop

\* gMpPlugIn.reset () between two steps
ResetRun ==
    /\ last.op # "new"
    /\ ops <= MaxResetTicks + 1
    /\ ResetCall
    /\ ops' = ops + 1
    /\ UNCHANGED loop

NextRun == OpenOnce \/ Tick \/ ResetRun

SpecRun == InitRun /\ [][NextRun]_vars

----------------------------------------------------------------------------
(* SpecPursuit: a wanderer and a pursuer of it, constructed outside any     *)
(* roster; MpPursuer::update is called on the pursuer with elapsedTime =    *)
(* 0.006 and the wanderer is never updated, so that it stays where its      *)
(* constructor put it, with speed 0.  ops counts the calls.                 *)

\* MpWanderer w; MpPursuer p (&w);
InitPursuit ==
    /\ pursuerCount = 0
    /\ \E draw \in RingDraws :
          heap = <<NewWanderer, NewPursuer(1, NewWanderer.pos, draw)>>
    /\ allMP = <<>>
    /\ buf = <<>>
    /\ pBegin = 0
    /\ pEnd = 0
    /\ wanderer = 0
    /\ status = "ok"
    /\ last = Call("new", 0, NoInput, "ok")
    /\ log = <<>>
    /\ caught = 0
    /\ ops = 0
    /\ loop = NoLoop

\* p.update (0.006)
PursuitTick ==
    /\ ops < MaxChaseTicks
    /\ \E m \in MpPursuerUpdate(Start, 2, heap[2].wref, FrameDt) :
          /\ heap' = m.heap
          /\ log' = m.log
          /\ status' = m.status
          /\ last' = Call("pursue", FrameDt, NoInput, m.status)
          /\ caught' = caught + Cardinality(Resets(m.log))
    /\ ops' = ops + 1
    /\ UNCHANGED <<pursuerCount, allMP, buf, pBegin, pEnd, wanderer, loop>>

NextPursuit == PursuitTick

SpecPursuit == InitPursuit /\ [][NextPursuit]_vars

----------------------------------------------------------------------------
(* SpecLoop: the program.  OpenSteerDemo::initialize opens the roster, then *)
(* runGraphics loops: displayFunc, foo, swap buffers and poll events, until *)
(* the window is closed.  ops counts the calls of update.                   *)

InitLoop ==
    /\ pursuerCount \in RunPursuerCounts
    /\ heap = <<>>
    /\ allMP = <<>>
    /\ buf = <<>>
    /\ pBegin = 0
    /\ pEnd = 0
    /\ wanderer = 0
    /\ status = "ok"
    /\ last = Call("new", 0, NoInput, "ok")
    /\ log = <<>>
    /\ caught = 0
    /\ ops = 0
    /\ loop = [NoLoop EXCEPT !.pc = "start"]

\* one call of gMpPlugIn.update by a function of the loop, and where it left
\* the vehicles
Ticked(by, dt, h) == [by |-> by, dt |-> dt, after |-> Positions(h, allMP)]

\* OpenSteerDemo::initialize: selectedVehicle = NULL, then open selects the
\* wanderer
LoopInitialize ==
    /\ loop.pc = "start"
    /\ OpenCall
    /\ ops' = 0
    /\ loop' = [Select(Select(loop, 0), wanderer') EXCEPT !.pc = "display"]

\* displayFunc: OpenSteerDemo::updateSimulationAndRedraw, that is
\* gMpPlugIn.update (0.006) and then gMpPlugIn.redraw
DisplayFunc ==
    /\ loop.pc = "display"
    /\ loop.iter < MaxFrames
    /\ \E draw \in WanderDraws : UpdateCall(FrameDt, NoInput, draw)
    /\ ops' = ops + 1
    /\ loop' = [loop EXCEPT
                   !.pc = "foo",
                   !.selected = IF @ = 0 /\ allMP # <<>> THEN allMP[1] ELSE @,
                   !.calls = Append(@, Ticked("displayFunc", FrameDt, heap')),
                   !.drawn = Positions(heap', RedrawRange)]

\* foo without its call of update
FooDrawOnly ==
    /\ loop.pc = "foo"
    /\ loop' = [loop EXCEPT
                   !.pc = "swap",
                   !.selected = IF allMP # <<>> THEN allMP[1] ELSE @,
                   !.shown = Positions(heap, <<wanderer>> \o Tail(allMP))]
    /\ UNCHANGED <<pursuerCount, heap, allMP, buf, pBegin, pEnd, wanderer, status,
                   last, log, caught, ops>>

\* foo: gMpPlugIn.update (0.006), then the wanderer and vehicles[1..] drawn
\* as circles in the OpenCV window
Foo ==
    /\ loop.pc = "foo"
    /\ \E draw \in WanderDraws : UpdateCall(FrameDt, NoInput, draw)
    /\ ops' = ops + 1
    /\ loop' = [loop EXCEPT
                   !.pc = "swap",
                   !.selected = IF allMP # <<>> THEN allMP[1] ELSE @,
                   !.calls = Append(@, Ticked("foo", FrameDt, heap')),
                   !.shown = Positions(heap', <<wanderer>> \o Tail(allMP))]

\* glfwSwapBuffers and glfwPollEvents: the end of one iteration
SwapAndPoll ==
    /\ loop.pc = "swap"
    /\ loop' = [loop EXCEPT !.pc = "display", !.iter = @ + 1, !.calls = <<>>]
    /\ UNCHANGED <<pursuerCount, heap, allMP, buf, pBegin, pEnd, wanderer, status,
                   last, log, caught, ops>>

\* glfwWindowShouldClose: the loop ends, glfwTerminate
Terminate ==
    /\ loop.pc = "display"
    /\ loop' = [loop EXCEPT !.pc = "done"]
    /\ UNCHANGED <<pursuerCount, heap, allMP, buf, pBegin, pEnd, wanderer, status,
                   last, log, caught, ops>>

NextLoop == LoopInitialize \/ DisplayFunc \/ Foo \/ SwapAndPoll \/ Terminate

SpecLoop == InitLoop /\ [][NextLoop]_vars

----------------------------------------------------------------------------
(* Claims *)

\* the steering events of vehicle id in a log
Steers(l, id) == {j \in 1..Len(l) : l[j].ev = "steer" /\ l[j].id = id}

\* C1: in every tick, a pursuer that touched the wanderer and was reset gets
\* no pursuit steering force in that tick; applySteeringForce runs for a
\* pursuer only in a tick in which it was not reset.
C1_ResetExcludesSteering ==
    last.op = "update" => \A i \in Resets(log) : Steers(log, log[i].id) = {}

\* C2: at the end of a tick in which a pursuer was reset on contact, it lies
\* at a distance in [20, 30] from the position the wanderer had at the reset.
C2_ResetRingAtEndOfTick ==
    last.op = "update" =>
        \A i \in Resets(log) :
            LET d == Distance(heap[log[i].id].pos, log[i].wpos)
            IN  RingInner <= d /\ d <= RingOuter

\* the deletes a log records of vehicles that were alive
Deletes(l) == {i \in 1..Len(l) : l[i].ev = "delete" /\ ~l[i].dead}

\* C3: during close no live pursuer holds a reference to a wanderer already
\* destroyed: every pursuer is deleted before the wanderer it references.
C3_PursuersDestroyedFirst ==
    last.op = "close" =>
        \A i, j \in Deletes(log) :
            (/\ heap[log[i].id].kind = "W"
             /\ heap[log[j].id].kind = "P"
             /\ heap[log[j].id].wref = log[i].id) => j < i

\* C4: after any sequence of calls, a roster that holds vehicles holds one
\* wanderer, at index 0, followed by exactly pursuerCount pursuers, and every
\* element from pBegin to pEnd is a pursuer.
C4_RosterShape ==
    (pursuerCount >= 0 /\ allMP # <<>>) =>
        /\ Len(allMP) = 1 + pursuerCount
        /\ heap[allMP[1]].kind = "W"
        /\ \A i \in 2..Len(allMP) : heap[allMP[i]].kind = "P"
        /\ LET range == PursuerRange(buf, pBegin, pEnd)
           IN  \A i \in 1..Len(range) : heap[range[i]].kind = "P"

\* C5: open on a roster with pursuerCount < 0, and update with dt <= 0, are
\* rejected as InvalidConfiguration and change no vehicle.
C5_RejectsInvalidConfiguration ==
    [][(/\ ops' # ops
        /\ \/ last'.op = "open" /\ pursuerCount < 0
           \/ last'.op = "update" /\ last'.dt <= 0)
       => (last'.result = "InvalidConfiguration" /\ heap' = heap)]_vars

\* C6: in any sequence of calls, no pursuer is stepped or reset after the
\* wanderer it references has been destroyed.
C6_NoStepAfterWandererDestroyed ==
    \A i \in 1..Len(log) :
        (log[i].ev \in {"check", "reset", "steer"} /\ heap[log[i].id].kind = "P")
            => heap[log[i].w].alive

\* C7: a tick given an external wanderer position puts the wanderer exactly
\* there and runs no wander step for it.
C7_ExternalPositionTeleports ==
    (last.op = "update" /\ last.ext.given /\ last.result = "ok") =>
        /\ heap[wanderer].pos = last.ext.pos
        /\ \A i \in 1..Len(log) : log[i].ev # "wander"

\* C8: between calls every live vehicle has 0 <= speed <= maxSpeed, and
\* maxSpeed is the 3.0 that reset sets.
C8_SpeedBound ==
    \A id \in 1..Len(heap) :
        heap[id].alive =>
            /\ 0 <= heap[id].speed
            /\ heap[id].speed <= heap[id].maxSpeed
            /\ heap[id].maxSpeed = MpMaxSpeed

\* a vehicle runs at top speed after a contact reset has happened
C8_Witness ==
    /\ last.op = "update"
    /\ caught > 0
    /\ \E id \in 1..Len(heap) : heap[id].speed = MpMaxSpeed

\* the distance between the pursuer and the wanderer of SpecPursuit
ChaseDistance ==
    IF Len(heap) >= 2 THEN Distance(heap[2].pos, heap[1].pos) ELSE 0

\* C9: with the wanderer at rest, every tick without contact strictly
\* decreases the pursuer's distance to it, the distance never increases in
\* two consecutive ticks, and contact is reached before the run ends.
C9_PursuitConverges ==
    /\ [][/\ Resets(log') = {} => ChaseDistance' < ChaseDistance
          /\ ChaseDistance' > ChaseDistance => (Resets(log') # {} /\ Resets(log) = {})]_vars
    /\ [](ops >= MaxChaseTicks => caught > 0)

\* the pursuer reached the wanderer, was reset, and is closing in again
C9_Witness ==
    /\ caught > 0
    /\ last.op = "pursue"
    /\ Resets(log) = {}
    /\ heap[1].speed = 0
    /\ ChaseDistance > 2 * VehicleRadius

\* the vehicles of the events ev of a log, in order
Visited(l, ev) ==
    LET is(e) == e.ev = ev
        hits  == SelectSeq(l, is)
    IN  [i \in 1..Len(hits) |-> hits[i].id]

\* C10: a tick advances the wanderer first, then checks and steers each
\* pursuer once in creation order, every pursuer reading the position the
\* wanderer has after its own update; no wanderer is stepped as a pursuer.
C10_TickOrder ==
    last.op = "update" =>
        /\ log[1].ev = "wander" /\ log[1].id = wanderer
        /\ log[1].pos = heap[wanderer].pos
        /\ Visited(log, "wander") = <<wanderer>>
        /\ Visited(log, "check") = [i \in 1..pursuerCount |-> wanderer + i]
        /\ Visited(log, "steer") = [i \in 1..pursuerCount |-> wanderer + i]
        /\ \A i \in 2..Len(log) :
              /\ log[i].ev \in {"check", "reset", "steer"}
              /\ heap[log[i].id].kind = "P"
              /\ log[i].w = wanderer
              /\ log[i].wpos = log[1].pos

\* a tick with two pursuers in which the wanderer moved and the second
\* pursuer was reset on contact
C10_Witness ==
    /\ last.op = "update"
    /\ pursuerCount = 2
    /\ log[1].pos # 0
    /\ \E i \in Resets(log) : log[i].id = wanderer + 2

\* a sequence in the opposite order
Reverse(s) == [i \in 1..Len(s) |-> s[Len(s) + 1 - i]]

\* MpPlugIn::update with the pursuers updated in the order ids
UpdateOutcomesIn(ids, dt, draw) ==
    LET step(m, id) == PursuerStep(m, id, dt)
    IN  ForEach(step, WandererStep(Start, wanderer, dt, draw), ids)

\* C11: in a tick the wanderer ends as its own update left it, every pursuer
\* ends as its own update alone would leave it given that wanderer (whatever
\* the other pursuers did), and updating the pursuers in the opposite order
\* gives the same vehicles.
C11_PursuerUpdateFrame ==
    [][last'.op = "update" =>
          LET ids   == PursuerRange(buf, pBegin, pEnd)
              moved == [Start EXCEPT !.heap[wanderer] = heap'[wanderer]]
          IN  /\ \E draw \in WanderDraws :
                    /\ heap'[wanderer] = MpWandererUpdate(heap[wanderer], last'.dt, draw)
                    /\ heap' \in {m.heap : m \in UpdateOutcomesIn(Reverse(ids), last'.dt, draw)}
              /\ \A i \in 1..Len(ids) :
                    heap'[ids[i]] \in
                        {m.heap[ids[i]] : m \in PursuerStep(moved, ids[i], last'.dt)}
              /\ \A id \in 1..Len(heap) :
                    (heap[id].kind = "P" /\ heap'[id] # heap[id])
                        => \E i \in 1..Len(ids) : ids[i] = id]_vars

\* a tick with two pursuers at different places in which the wanderer moved,
\* the first pursuer was reset on contact and the second was not
C11_Witness ==
    /\ last.op = "update"
    /\ pursuerCount = 2
    /\ log[1].pos # 0
    /\ heap[wanderer + 1].pos # heap[wanderer + 2].pos
    /\ \E i \in Resets(log) : log[i].id = wanderer + 1
    /\ \A i \in Resets(log) : log[i].id # wanderer + 2

\* C12: right after open and right after MpPlugIn::reset every vehicle of
\* the roster has speed 0 and every pursuer is at a distance in [20, 30] from
\* where the wanderer is now; the wanderer is constructed or reset first, and
\* every pursuer draws its ring around the position the wanderer has then.
C12_StartsOnRing ==
    last.op \in {"open", "reset"} =>
        /\ \A i \in 1..Len(allMP) :
              LET v == heap[allMP[i]]
                  d == Distance(v.pos, heap[wanderer].pos)
              IN  /\ v.speed = 0
                  /\ v.kind = "P" => (RingInner <= d /\ d <= RingOuter)
        /\ Len(log) = Len(allMP)
        /\ log[1].id = wanderer /\ log[1].ev \in {"new", "wreset"}
        /\ log[1].pos = heap[wanderer].pos
        /\ \A i \in 2..Len(log) :
              /\ log[i].id = allMP[i] /\ log[i].ev \in {"new", "reset"}
              /\ log[i].w = wanderer
              /\ log[i].wpos = log[1].pos

\* a roster of two pursuers just reset, one on the inner edge of the ring and
\* one on the outer edge on the other side of the wanderer
C12_Witness ==
    /\ last.op = "reset"
    /\ pursuerCount = 2
    /\ heap[wanderer + 1].pos = heap[wanderer].pos - RingInner
    /\ heap[wanderer + 2].pos = heap[wanderer].pos + RingOuter

\* C13: every iteration of the main loop makes exactly two calls of update,
\* the first by displayFunc and the second by foo, both with dt = 0.006, so
\* that the ticks made are twice the iterations completed plus those of the
\* iteration under way; what redraw drew is the state the first call left.
C13_TwoTicksPerIteration ==
    loop.pc \in {"display", "foo", "swap", "done"} =>
        /\ ops = 2 * loop.iter + Len(loop.calls)
        /\ \A i \in 1..Len(loop.calls) : loop.calls[i].dt = FrameDt
        /\ loop.pc \in {"display", "done"} => loop.calls = <<>>
        /\ loop.pc \in {"foo", "swap"} =>
              /\ loop.calls[1].by = "displayFunc"
              /\ loop.drawn = loop.calls[1].after
        /\ loop.pc = "foo" => Len(loop.calls) = 1
        /\ loop.pc = "swap" =>
              /\ Len(loop.calls) = 2
              /\ loop.calls[2].by = "foo"
              /\ loop.calls[2].after = Positions(heap, allMP)
              /\ loop.shown = loop.calls[2].after

\* the second iteration is complete: four ticks were made, and the drawing of
\* redraw is not where the vehicles are now
C13_Witness ==
    /\ loop.pc = "swap"
    /\ loop.iter = 1
    /\ ops = 4
    /\ pursuerCount = 2
    /\ loop.drawn # Positions(heap, allMP)
    /\ loop.drawn[1] # heap[wanderer].pos

====
